---- MODULE Spec2Model ----
(***************************************************************************)
(* State-machine model of src/GUI/TC-1000_GUI.py: the serial bridge of the *)
(* TC-1000 read-out.  Two threads of control are modelled:                 *)
(*   - the I/O worker (ThreadedClient.workerThread1), one action per       *)
(*     statement group between two accesses of shared state;               *)
(*   - the Qt GUI thread: the 50 ms timer tick (periodicCall ->            *)
(*     SerialMonitor.processIncoming) and the slots connected in           *)
(*     connectSignals (writeData, scaleChange, changePort, endWidget).     *)
(*     A slot runs to completion; signals emitted inside a slot            *)
(*     (QSpinBox.setValue -> valueChanged, QRadioButton.setChecked ->      *)
(*     toggled) call their slot synchronously, nested.                     *)
(*                                                                         *)
(* Temperatures are exact rationals held as integers in ninths of a degree *)
(* Celsius (target 30 C = 270), so that the steps 1 and 5.0/9.0 and the    *)
(* conversion (F-32)*5/9 are all integers; Python's float rounding is not  *)
(* modelled.  A serial line is a sequence of one-character strings.        *)
(*                                                                         *)
(* Uncaught exceptions: in a slot called from the Qt event loop the        *)
(* exception ends that slot, is printed, and the event loop goes on (the   *)
(* PyQt5 of Python 3.4 the file was built for); it is recorded in          *)
(* `uncaught`.  In the worker thread it ends the thread (wpc = "dead").    *)
(***************************************************************************)
EXTENDS Integers, Sequences, FiniteSets, TLC

\* ------------------------------------------------------------------ bounds
\* Lines the device delivers to readline() over a run.
MaxLines == 1
\* User intents (spin box, radio button, port selector, window close) and
\* device faults (an open, read or write raising) over a run.
MaxEvents == 2

\* --------------------------------------------------------------- constants
\* SerialMonitor.target starts at 30 (degrees Celsius).
InitTarget == 30
\* QSpinBox range: minimum 0 (Qt default), maximum 1000.
SpinMax == 1000
\* Ninths of a degree per degree: the unit of target and current.
Unit == 9

VARIABLES
    running,      \* ThreadedClient.running
    ports,        \* ThreadedClient.ports
    ser,          \* ThreadedClient.ser: [st, port]; st is "none" (no such attribute),
                  \* "open", "closed", or "broken" (open, the device behind it gone)
    inQueue,      \* ThreadedClient.inQueue (LifoQueue): top is the last element
    outQueue,     \* ThreadedClient.outQueue (LifoQueue)
    outVal,       \* ThreadedClient.outVal
    wire,         \* what the ser.write() calls of the last write-out handed to the device
    status,       \* text of gui.statusBar()
    wpc,          \* position of workerThread1
    fahrenheit,   \* SerialMonitor.fahrenheit
    target,       \* SerialMonitor.target, ninths of a degree C
    current,      \* SerialMonitor.current, ninths of a degree (valid if hasCurrent)
    hasCurrent,   \* whether the attribute SerialMonitor.current exists
    currentInitialized,
    tempArrayInitialized,
    tempArray,    \* rows <<current, target>> of SerialMonitor.tempArray
    spin,         \* targetTemp.value()
    fChecked,     \* fSelect.isChecked(); cSelect is its complement (auto-exclusive)
    enabled,      \* controlsEnabled(...) last value
    gpc,          \* position of the GUI thread
    uncaught,     \* exception that left the slot run last ("none" if none)
    seen,         \* lines popped so far by the drain in progress, in pop order
    atStart,      \* inQueue as it was when the drain in progress began
    seeded,       \* a 3-token reading was processed since the last successful open
    nLines, nEvents   \* inputs consumed so far (bounded above)

vars == <<running, ports, ser, inQueue, outQueue, outVal, wire, status, wpc,
          fahrenheit, target, current, hasCurrent, currentInitialized,
          tempArrayInitialized, tempArray, spin, fChecked, enabled, gpc,
          uncaught, seen, atStart, seeded, nLines, nEvents>>

\* ------------------------------------------------------------ unit conversion
\* Truncation toward zero of a/b (b > 0): Python's int() of a float.
Trunc(a, b) == IF a >= 0 THEN a \div b ELSE -((-a) \div b)

\* int(toFahrenheit(t)) for t in ninths C: F = t/9*9/5+32 = (t+160)/5.
IntFahrenheit(t) == Trunc(t + 32 * 5, 5)

\* toCelsius(f) in ninths C for an integer f: (f-32)*5/9 degrees.
toCelsius(f) == (f - 32) * 5

\* Comparison of an integer spin-box value d with toFahrenheit(t): -1, 0, 1.
CmpFahrenheit(d, t) ==
    IF 5 * d > t + 32 * 5 THEN 1 ELSE IF 5 * d < t + 32 * 5 THEN -1 ELSE 0

\* math.floor(t) and int(t) of a Celsius value in ninths, back in ninths.
Floor(t) == (t \div Unit) * Unit
IntCelsius(t) == Trunc(t, Unit)

\* --------------------------------------------------------------- line codec
Digits == <<"0", "1", "2", "3", "4", "5", "6", "7", "8", "9">>
IsDigit(c) == \E i \in 1..10 : Digits[i] = c
DigitVal(c) == (CHOOSE i \in 1..10 : Digits[i] = c) - 1
IsSpace(c) == c \in {" ", "\n", "\r", "\t"}

\* bytes.split(): the maximal runs of non-whitespace characters.
RECURSIVE SplitFrom(_, _, _)
SplitFrom(line, i, tok) ==
    IF i > Len(line)
    THEN IF tok = <<>> THEN <<>> ELSE <<tok>>
    ELSE IF IsSpace(line[i])
         THEN IF tok = <<>> THEN SplitFrom(line, i + 1, <<>>)
              ELSE <<tok>> \o SplitFrom(line, i + 1, <<>>)
         ELSE SplitFrom(line, i + 1, Append(tok, line[i]))
Split(line) == SplitFrom(line, 1, <<>>)

\* A token float()/int() accept: digits with an optional leading minus sign
\* (the alphabet of the modelled lines has no '.', 'e' or '_').
Body(tok) == IF tok # <<>> /\ tok[1] = "-" THEN Tail(tok) ELSE tok
IsNumeric(tok) == Body(tok) # <<>> /\ \A i \in 1..Len(Body(tok)) : IsDigit(Body(tok)[i])
RECURSIVE NatOf(_)
NatOf(ds) == IF ds = <<>> THEN 0
             ELSE 10 * NatOf(SubSeq(ds, 1, Len(ds) - 1)) + DigitVal(ds[Len(ds)])
\* int(tok)
ToInt(tok) == IF tok[1] = "-" THEN -NatOf(Body(tok)) ELSE NatOf(Body(tok))
\* float(tok), in ninths
ToFloat(tok) == Unit * ToInt(tok)

\* ------------------------------------------------------------------ GUI slots
\* The slots work on a record g of the GUI thread's data:
\*   fahrenheit, target, current, hasCurrent, currentInitialized,
\*   tempArrayInitialized, tempArray  (SerialMonitor attributes)
\*   spin, fChecked                    (widget state)
\*   out                               (outQueue)
\*   exc                               (exception raised in the running slot)
G == [fahrenheit |-> fahrenheit, target |-> target, current |-> current,
      hasCurrent |-> hasCurrent, currentInitialized |-> currentInitialized,
      tempArrayInitialized |-> tempArrayInitialized, tempArray |-> tempArray,
      spin |-> spin, fChecked |-> fChecked, out |-> outQueue, exc |-> "none"]

\* LifoQueue.put / LifoQueue.get: a stack, its top the last element.
Put(q, x) == Append(q, x)
Top(q) == q[Len(q)]
\* A get that takes the oldest entry (a FIFO queue.Queue).
PopOldest(q) == Tail(q)
Pop(q) == SubSeq(q, 1, Len(q) - 1)

\* Entries of outQueue: a target value (a number) or the unit token "F"/"C".
SetTargetC(t) == [cmd |-> "T", val |-> t]
SetUnit(u) == [cmd |-> u, val |-> 0]
\* str(outVal).encode("utf-8"): the decimal text of a number (kept as the
\* value it denotes, in ninths), or the token itself; and the newline.
Str(v) == IF v.cmd = "T" THEN [text |-> "number", val |-> v.val]
          ELSE [text |-> v.cmd, val |-> 0]
Newline == [text |-> "\n", val |-> 0]

\* writeData as a direct set: the target jumps to the requested value.
writeDataDirectSet(g, data) ==
    LET t == IF g.fahrenheit = 0 THEN data * Unit ELSE toCelsius(data)
    IN [g EXCEPT !.target = t, !.out = Put(g.out, SetTargetC(t))]

\* writeData with the put skipped when the target does not move.
writeDataSkipNoOp(g, data) ==
    LET t == IF g.fahrenheit = 0
             THEN IF data * Unit > g.target THEN g.target + Unit
                  ELSE IF data * Unit < g.target THEN g.target - Unit
                  ELSE g.target
             ELSE IF CmpFahrenheit(data, g.target) = 1 THEN g.target + 5
                  ELSE IF CmpFahrenheit(data, g.target) = -1 THEN g.target - 5
                  ELSE g.target
    IN IF t = g.target THEN g
       ELSE [g EXCEPT !.target = t, !.out = Put(g.out, SetTargetC(t))]

\* ThreadedClient.writeData(data): one step of target toward data, then put.
writeData(g, data) ==
    LET t == IF g.fahrenheit = 0
             THEN IF data * Unit > g.target THEN g.target + Unit
                  ELSE IF data * Unit < g.target THEN g.target - Unit
                  ELSE g.target
             ELSE IF CmpFahrenheit(data, g.target) = 1 THEN g.target + 5
                  ELSE IF CmpFahrenheit(data, g.target) = -1 THEN g.target - 5
                  ELSE g.target
    IN [g EXCEPT !.target = t, !.out = Put(g.out, SetTargetC(t))]

\* QSpinBox.setValue(v): clamps to the range; valueChanged (-> writeData) is
\* emitted only when the value changes.
setValue(g, v) ==
    LET c == IF v < 0 THEN 0 ELSE IF v > SpinMax THEN SpinMax ELSE v
    IN IF c = g.spin THEN g ELSE writeData([g EXCEPT !.spin = c], c)

\* ThreadedClient.scaleChange(scale).  currTemp.display(...) reads
\* monitor.current, which does not exist before the first reading
\* (AttributeError ends the slot there).  In the Celsius branch setValue is
\* handed float(target), which the binding converts with int().
scaleChange(g, scale) ==
    LET g1 == [g EXCEPT !.fahrenheit = IF scale THEN 1 ELSE 0,
                        !.target = Floor(g.target)]
    IN IF scale
       THEN LET g2 == [g1 EXCEPT !.out = Put(g1.out, SetUnit("F"))]
            IN IF ~g2.hasCurrent THEN [g2 EXCEPT !.exc = "AttributeError"]
               ELSE setValue(g2, IntFahrenheit(g2.target))
       ELSE IF ~g1.hasCurrent THEN [g1 EXCEPT !.exc = "AttributeError"]
            ELSE LET g3 == setValue(g1, IntCelsius(g1.target))
                 IN [g3 EXCEPT !.out = Put(g3.out, SetUnit("C"))]

\* fSelect.setChecked(True) / cSelect.setChecked(True): the two radio buttons
\* are auto-exclusive; fSelect.toggled (-> scaleChange) fires when fSelect's
\* state changes.  An exception in the nested slot does not reach the caller.
fSelectSetChecked(g) ==
    IF g.fChecked THEN g
    ELSE [scaleChange([g EXCEPT !.fChecked = TRUE], TRUE) EXCEPT !.exc = "none"]
cSelectSetChecked(g) ==
    IF ~g.fChecked THEN g
    ELSE [scaleChange([g EXCEPT !.fChecked = FALSE], FALSE) EXCEPT !.exc = "none"]

\* The branch on len(msg) of processIncoming (lines 255-278).
Decode(g, msg) ==
    IF Len(msg) \in {1, 2, 3} /\ ~IsNumeric(msg[1])
    THEN [g EXCEPT !.exc = "ValueError"]
    ELSE IF Len(msg) = 1
    THEN [g EXCEPT !.current = ToFloat(msg[1]), !.hasCurrent = TRUE,
                   !.currentInitialized = TRUE]
    ELSE IF Len(msg) = 2
    THEN LET g1 == [g EXCEPT !.current = ToFloat(msg[1]), !.hasCurrent = TRUE]
         IN IF ~IsNumeric(msg[2]) THEN [g1 EXCEPT !.exc = "ValueError"]
            ELSE LET g2 == [g1 EXCEPT !.fahrenheit = ToInt(msg[2]),
                                      !.currentInitialized = TRUE]
                 IN IF g2.fahrenheit # 0
                    THEN LET g3 == fSelectSetChecked(g2)
                         IN setValue(g3, IntFahrenheit(g3.target))
                    ELSE g2
    ELSE IF Len(msg) = 3
    THEN LET g1 == [g EXCEPT !.current = ToFloat(msg[1]), !.hasCurrent = TRUE,
                             !.currentInitialized = TRUE]
         IN IF ~IsNumeric(msg[2]) THEN [g1 EXCEPT !.exc = "ValueError"]
            ELSE LET g2 == [g1 EXCEPT !.fahrenheit = ToInt(msg[2])]
                 IN IF ~IsNumeric(msg[3]) THEN [g2 EXCEPT !.exc = "ValueError"]
                    ELSE LET g3 == [g2 EXCEPT !.target = ToFloat(msg[3])]
                         IN IF g3.fahrenheit # 0
                            THEN LET g4 == fSelectSetChecked(g3)
                                 IN setValue(g4, IntFahrenheit(g4.target))
                            ELSE LET g5 == cSelectSetChecked(g3)
                                 IN setValue(g5, IntCelsius(g5.target))
    ELSE g

\* The rest of the loop body (lines 280-291): display, then the history row.
Record(g) ==
    IF ~g.hasCurrent THEN [g EXCEPT !.exc = "AttributeError"]
    ELSE IF g.tempArrayInitialized
    THEN [g EXCEPT !.tempArray = Append(g.tempArray, <<g.current, g.target>>)]
    ELSE IF g.currentInitialized
    THEN [g EXCEPT !.tempArray = <<(<<g.current, g.target>>)>>,
                   !.tempArrayInitialized = TRUE]
    ELSE g

\* One iteration of the while loop of processIncoming on the popped line.
ProcessLine(g, line) ==
    LET d == Decode(g, Split(line))
    IN IF d.exc # "none" THEN d ELSE Record(d)

\* ------------------------------------------------------------------ inputs
\* What serial_ports() can return, and the lines the device can send.
PortLists == {<<>>, <<"A", "B">>}
Lines == {
    <<"2", "5", "\n">>,                                   \* "25"
    <<"2", "5", " ", "1", "\r", "\n">>,                   \* "25 1"
    <<"2", "4", " ", "0", " ", "2", "0", "\n">>,          \* "24 0 20"
    <<" ", "2", "6", " ", "1", " ", "8", "7", " ", "\n">>,\* " 26 1 87 "
    <<"2", "5", " ", "x", "\n">>,                         \* "25 x"
    <<"1", " ", "2", " ", "3", " ", "4", "\n">> }         \* "1 2 3 4"
\* Values the user types into the spin box (besides stepping it by one).
Typed == {30}
SpinInputs == ({spin + 1} \cup Typed) \ {spin}

NoStatus == <<"Initializing", "">>
NoOutVal == [cmd |-> "none", val |-> 0]

\* ------------------------------------------------------------------ Init
\* The state when __init__ returns: the class body has enumerated the ports,
\* initSerial(ports[0]) has opened the port or failed, the timer and the
\* signals are connected, and the worker thread has been started.
Init ==
    /\ running = 1
    /\ ports \in PortLists
    /\ \/ /\ ports # <<>>
          /\ ser = [st |-> "open", port |-> ports[1]]
          /\ enabled = TRUE
          /\ nEvents = 0
       \/ /\ ser = [st |-> "none", port |-> ""]
          /\ enabled = FALSE
          /\ nEvents = IF ports = <<>> THEN 0 ELSE 1
    /\ inQueue = <<>> /\ outQueue = <<>> /\ outVal = NoOutVal
    /\ wire = <<>> /\ status = NoStatus /\ wpc = "scan"
    /\ fahrenheit = 0 /\ target = InitTarget * Unit
    /\ current = 0 /\ hasCurrent = FALSE
    /\ currentInitialized = FALSE /\ tempArrayInitialized = FALSE
    /\ tempArray = <<>>
    /\ spin = 0 /\ fChecked = FALSE
    /\ gpc = "idle" /\ uncaught = "none"
    /\ seen = <<>> /\ atStart = <<>> /\ seeded = FALSE
    /\ nLines = 0

guiData == <<fahrenheit, target, current, hasCurrent, currentInitialized,
             tempArrayInitialized, tempArray, spin, fChecked>>
drainLog == <<seen, atStart>>
budget == <<nLines, nEvents>>

\* A device fault or a user intent may still happen.
CanEvent == nEvents < MaxEvents
Event == nEvents' = nEvents + 1

\* The GUI thread's data after a slot that ended in record r.
GuiUpdate(r) ==
    /\ fahrenheit' = r.fahrenheit /\ target' = r.target
    /\ current' = r.current /\ hasCurrent' = r.hasCurrent
    /\ currentInitialized' = r.currentInitialized
    /\ tempArrayInitialized' = r.tempArrayInitialized
    /\ tempArray' = r.tempArray
    /\ spin' = r.spin /\ fChecked' = r.fChecked
    /\ outQueue' = r.out

\* ------------------------------------------------------------ worker thread
\* wpc: "scan" at the tests of lines 613/615, "open" at the initSerial call
\* of line 625, "poll" at the test of line 628,
\* "read" inside readline() (line 631), "get" at outQueue.get() (line 647),
\* "exit" after the outer loop, "dead" after an uncaught exception.

\* ThreadedClient.initSerial(port) called by the worker: the open succeeds
\* (controls enabled, handle replaced) or raises and is swallowed.
WScanOpen(found) ==
    \/ /\ ser' = [st |-> "open", port |-> found[1]]
       /\ seeded' = FALSE
       /\ UNCHANGED nEvents
    \/ /\ CanEvent /\ Event
       /\ UNCHANGED <<ser, seeded>>

\* Lines 613-624: the outer test, then one pass of the scan loop up to the
\* call of initSerial, or leaving the loop.
WScan ==
    /\ wpc = "scan"
    /\ IF running = 0
       THEN /\ wpc' = "exit"
            /\ UNCHANGED <<ports, enabled, status, ser, seeded, nEvents>>
       ELSE IF ports = <<>>
       THEN \E found \in PortLists :
              /\ ports' = found
              /\ enabled' = (found # <<>>)
              /\ IF found = <<>>
                 THEN /\ status' = <<"No Serial Ports Detected", "">>
                      /\ wpc' = "scan"
                 ELSE /\ status' = <<"Connecting to", found[1]>>
                      /\ wpc' = "open"
              /\ UNCHANGED <<ser, seeded, nEvents>>
       ELSE /\ wpc' = "poll"
            /\ UNCHANGED <<ports, enabled, status, ser, seeded, nEvents>>
    /\ UNCHANGED <<running, inQueue, outQueue, outVal, wire, guiData, gpc,
                   uncaught, drainLog, nLines>>

\* Lines 625-626: initSerial(self.ports[0], ...), its result ignored, then
\* back to the test of the scan loop.  The GUI thread may have run between
\* the test of self.running and this call.  The controls are enabled
\* already (line 622), so controlsEnabled(True) of line 513 changes nothing.
WOpen ==
    /\ wpc = "open"
    /\ WScanOpen(ports)
    /\ wpc' = "scan"
    /\ UNCHANGED <<running, ports, inQueue, outQueue, outVal, wire, status,
                   guiData, enabled, gpc, uncaught, drainLog, nLines>>

\* Line 628: while self.ports and self.running.
WPoll ==
    /\ wpc = "poll"
    /\ wpc' = IF ports # <<>> /\ running = 1 THEN "read" ELSE "scan"
    /\ UNCHANGED <<running, ports, ser, inQueue, outQueue, outVal, wire, status,
                   guiData, enabled, gpc, uncaught, drainLog, seeded, budget>>

\* The write-out entered without the test of qsize().
AfterReadNoTest == "get"

\* Line 646, if self.outQueue.qsize(): where the cycle goes after the read.
AfterRead == IF Len(outQueue) > 0 THEN "get" ELSE "poll"

\* Lines 640-643: both reads raised: the status text, and the port list cleared.
WReadFaulted ==
    /\ status' = <<"Error on", ports[1]>>
    /\ ports' = <<>>
    /\ wpc' = AfterRead

\* Lines 630-646: msgIn = self.ser.readline(), the retry inside the except
\* clause (whose line, if it returns one, is dropped), and the qsize test.
\* Serial(port, baud) sets no timeout: readline returns only with a line or
\* an exception.  Without a handle object it raises AttributeError,
\* uncaught; on a closed or broken handle both reads raise SerialException;
\* on an open one the first read may raise and the retry succeed, or the
\* device may fail for good, with the handle left as it is.
WRead ==
    /\ wpc = "read"
    /\ \/ /\ ser.st = "none"
          /\ wpc' = "dead"
          /\ UNCHANGED <<inQueue, status, ports, ser, budget>>
       \/ /\ ser.st \in {"closed", "broken"}
          /\ WReadFaulted
          /\ UNCHANGED <<inQueue, ser, budget>>
       \/ /\ ser.st = "open"
          /\ nLines < MaxLines
          /\ \E l \in Lines : inQueue' = Put(inQueue, l)
          /\ nLines' = nLines + 1
          /\ status' = <<"Serial connection active", "">>
          /\ wpc' = AfterRead
          /\ UNCHANGED <<ports, ser, nEvents>>
       \/ /\ ser.st = "open"
          /\ CanEvent /\ Event
          /\ \/ /\ wpc' = AfterRead
                /\ UNCHANGED <<status, ports, ser>>
             \/ /\ WReadFaulted
                /\ ser' \in {ser, [ser EXCEPT !.st = "broken"]}
          /\ UNCHANGED <<inQueue, nLines>>
    /\ UNCHANGED <<running, outQueue, outVal, wire, guiData, enabled,
                   gpc, uncaught, drainLog, seeded>>

\* Lines 647-649: self.outVal = self.outQueue.get(), then the two ser.write
\* calls.  Either may raise SerialException (the first always does on a
\* closed handle), which nothing catches.
WGet ==
    /\ wpc = "get"
    /\ Len(outQueue) > 0
    /\ outVal' = Top(outQueue)
    /\ outQueue' = Pop(outQueue)
    /\ \/ /\ ser.st = "open"
          /\ wire' = <<Str(outVal'), Newline>>
          /\ wpc' = "poll"
          /\ UNCHANGED nEvents
       \/ /\ ser.st = "open"
          /\ CanEvent /\ Event
          /\ wire' \in {<<>>, <<Str(outVal')>>}
          /\ wpc' = "dead"
       \/ /\ ser.st # "open"
          /\ wire' = <<>>
          /\ wpc' = "dead"
          /\ UNCHANGED nEvents
    /\ UNCHANGED <<running, ports, ser, inQueue, status, guiData, enabled,
                   gpc, uncaught, drainLog, seeded, nLines>>

Worker == WScan \/ WOpen \/ WPoll \/ WRead \/ WGet

\* --------------------------------------------------------------- GUI thread
\* The three-token branch reached its assignment of self.target.
SeedsTarget(line) ==
    LET msg == Split(line)
    IN Len(msg) = 3 /\ \A i \in 1..3 : IsNumeric(msg[i])

\* periodicCall, lines 489-495, once processIncoming has returned: the plot,
\* and the quit test, which sits inside the tempArrayInitialized test.
AfterDrain == IF tempArrayInitialized /\ running = 0 THEN "quit" ELSE "idle"

\* Timer tick (periodicCall): processIncoming tests qsize(); with an empty
\* queue it returns at once, otherwise it enters its while loop.
Tick ==
    /\ gpc = "idle"
    /\ uncaught' = "none"
    /\ IF inQueue = <<>>
       THEN gpc' = AfterDrain /\ UNCHANGED drainLog
       ELSE gpc' = "drain" /\ seen' = <<>> /\ atStart' = inQueue
    /\ UNCHANGED <<running, ports, ser, inQueue, outQueue, outVal, wire, status,
                   wpc, guiData, enabled, seeded, budget>>

\* One iteration of the while loop (lines 250-294): get(0) pops the top
\* line; only queue.Empty is caught, so any other exception leaves
\* processIncoming and periodicCall with the rest of the queue in place.
DrainStep ==
    /\ gpc = "drain"
    /\ inQueue # <<>>
    /\ LET line == Top(inQueue)
           r == ProcessLine(G, line)
       IN /\ inQueue' = Pop(inQueue)
          /\ GuiUpdate(r)
          /\ uncaught' = r.exc
          /\ seeded' = (seeded \/ SeedsTarget(line))
          /\ IF r.exc = "none"
             THEN gpc' = "drain" /\ seen' = Append(seen, line) /\ UNCHANGED atStart
             ELSE gpc' = "idle" /\ seen' = <<>> /\ atStart' = <<>>
    /\ UNCHANGED <<running, ports, ser, outVal, wire, status, wpc, enabled, budget>>

\* qsize() is 0: the loop ends and periodicCall finishes.
DrainEnd ==
    /\ gpc = "drain"
    /\ inQueue = <<>>
    /\ gpc' = AfterDrain
    /\ seen' = <<>> /\ atStart' = <<>>
    /\ UNCHANGED <<running, ports, ser, inQueue, outQueue, outVal, wire, status,
                   wpc, guiData, enabled, uncaught, seeded, budget>>

\* A user intent is delivered by the event loop between two slots.
CanIntend == gpc = "idle" /\ CanEvent

\* The user changes the spin box to d: valueChanged(d) -> writeData(d).
UserSetpoint(d) ==
    /\ CanIntend /\ enabled
    /\ d \in 0..SpinMax /\ d # spin
    /\ GuiUpdate(writeData([G EXCEPT !.spin = d], d))
    /\ uncaught' = "none"
    /\ Event
    /\ UNCHANGED <<running, ports, ser, inQueue, outVal, wire, status, wpc,
                   enabled, gpc, drainLog, seeded, nLines>>

\* The user clicks the radio button that is not checked:
\* fSelect.toggled(scale) -> scaleChange(scale).
UserToggle(scale) ==
    /\ CanIntend /\ enabled
    /\ scale = ~fChecked
    /\ LET r == scaleChange([G EXCEPT !.fChecked = scale], scale)
       IN GuiUpdate(r) /\ uncaught' = r.exc
    /\ Event
    /\ UNCHANGED <<running, ports, ser, inQueue, outVal, wire, status, wpc,
                   enabled, gpc, drainLog, seeded, nLines>>

\* ThreadedClient.changePort(portIndex), lines 597-603: self.ser.close(),
\* then the bare name BAUD_RATE (a class attribute, not a global) raises
\* NameError before initSerial is called; the bare except reports it.
changePort(i) ==
    /\ CanIntend /\ enabled
    /\ i \in 1..Len(ports)
    /\ ser' = IF ser.st = "none" THEN ser ELSE [ser EXCEPT !.st = "closed"]
    /\ status' = <<"Error on", ports[i]>>
    /\ uncaught' = "none"
    /\ Event
    /\ UNCHANGED <<running, ports, inQueue, outQueue, outVal, wire, wpc, guiData,
                   enabled, gpc, drainLog, seeded, nLines>>

\* ThreadedClient.endWidget, lines 562-570 (window close, File->Exit):
\* running = 0, then self.ser.close() (AttributeError without a handle).
endWidget ==
    /\ CanIntend
    /\ running' = 0
    /\ ser' = IF ser.st = "none" THEN ser ELSE [ser EXCEPT !.st = "closed"]
    /\ uncaught' = IF ser.st = "none" THEN "AttributeError" ELSE "none"
    /\ Event
    /\ UNCHANGED <<ports, inQueue, outQueue, outVal, wire, status, wpc, guiData,
                   enabled, gpc, drainLog, seeded, nLines>>

Gui ==
    \/ Tick \/ DrainStep \/ DrainEnd
    \/ \E d \in SpinInputs : UserSetpoint(d)
    \/ \E scale \in BOOLEAN : UserToggle(scale)
    \/ \E i \in 1..2 : changePort(i)
    \/ endWidget

Next == Worker \/ Gui

Spec == Init /\ [][Next]_vars

\* The same system with its scheduling: the worker thread keeps running
\* while it has a step to take (a read that can return or fault does so),
\* and the 50 ms timer keeps firing periodicCall.
\* A drain in progress goes on: the next iteration pops the top line.  (The
\* steps of the system that satisfy DrainPop are those of DrainStep.)
DrainPop == gpc = "drain" /\ inQueue # <<>> /\ inQueue' = Pop(inQueue)
FairSpec ==
    /\ Spec
    /\ WF_vars(Worker)
    /\ WF_vars(Tick) /\ WF_inQueue(DrainPop) /\ WF_vars(DrainEnd)

\* The GUI thread alone, on a queue the worker has filled: the state after
\* construction once the worker, now inside readline(), has pushed up to
\* MaxQueue lines and no timer tick has run yet.
MaxQueue == 3
RECURSIVE SeqsUpTo(_, _)
SeqsUpTo(S, n) ==
    IF n = 0 THEN {<<>>}
    ELSE LET shorter == SeqsUpTo(S, n - 1)
         IN shorter \cup {Append(q, x) : q \in shorter, x \in S}
InitGui ==
    /\ running = 1
    /\ ports = <<"A", "B">>
    /\ ser = [st |-> "open", port |-> "A"]
    /\ enabled = TRUE
    /\ inQueue \in SeqsUpTo(Lines, MaxQueue)
    /\ status = IF inQueue = <<>> THEN NoStatus
                ELSE <<"Serial connection active", "">>
    /\ outQueue = <<>> /\ outVal = NoOutVal
    /\ wire = <<>> /\ wpc = "read"
    /\ fahrenheit = 0 /\ target = InitTarget * Unit
    /\ current = 0 /\ hasCurrent = FALSE
    /\ currentInitialized = FALSE /\ tempArrayInitialized = FALSE
    /\ tempArray = <<>>
    /\ spin = 0 /\ fChecked = FALSE
    /\ gpc = "idle" /\ uncaught = "none"
    /\ seen = <<>> /\ atStart = <<>> /\ seeded = FALSE
    /\ nLines = Len(inQueue) /\ nEvents = 0

NextGui ==
    \/ Tick \/ DrainStep \/ DrainEnd
    \/ \E d \in SpinInputs : UserSetpoint(d)
    \/ \E scale \in BOOLEAN : UserToggle(scale)

SpecGui == InitGui /\ [][NextGui]_vars

\* The connected system running for ever: the device keeps sending lines,
\* no read or write faults, and the user keeps changing the setpoint.  The
\* queues and the history are capped so that the state space is finite:
\* at most MaxOut outbound entries, at most MaxHist lines in all that wait
\* in inQueue, were taken by the drain in progress or made a history row,
\* and a target within one degree of its initial value.
MaxOut == 2
MaxHist == 2
LiveInputs == {InitTarget, InitTarget + 1} \ {spin}
\* The device sends lines that carry no unit flag and no target: a bare
\* reading, or a line that does not decode.
LiveLines ==
    {l \in Lines : Len(Split(l)) \notin {2, 3}
                      \/ \E i \in 1..Len(Split(l)) : ~IsNumeric(Split(l)[i])}

\* Lines 630-634 and 646 without budget: readline returns a line, which is
\* put on inQueue.
LiveRead ==
    /\ wpc = "read" /\ ser.st = "open"
    /\ Len(tempArray) + Len(inQueue) + Len(seen) < MaxHist
    /\ \E l \in LiveLines : inQueue' = Put(inQueue, l)
    /\ status' = <<"Serial connection active", "">>
    /\ wpc' = AfterRead
    /\ UNCHANGED <<running, ports, ser, outQueue, outVal, wire, guiData, enabled,
                   gpc, uncaught, drainLog, seeded, budget>>

\* valueChanged(d) -> writeData(d), without budget.
LiveSetpoint(d) ==
    /\ gpc = "idle" /\ enabled
    /\ d \in 0..SpinMax /\ d # spin
    /\ Len(outQueue) < MaxOut
    /\ LET r == writeData([G EXCEPT !.spin = d], d)
       IN /\ r.target \in ((InitTarget - 1) * Unit)..((InitTarget + 1) * Unit)
          /\ GuiUpdate(r)
    /\ uncaught' = "none"
    /\ UNCHANGED <<running, ports, ser, inQueue, outVal, wire, status, wpc,
                   enabled, gpc, drainLog, seeded, budget>>

InitLive ==
    /\ running = 1
    /\ ports = <<"A", "B">>
    /\ ser = [st |-> "open", port |-> "A"]
    /\ enabled = TRUE
    /\ inQueue = <<>> /\ outQueue = <<>> /\ outVal = NoOutVal
    /\ wire = <<>> /\ status = NoStatus /\ wpc = "poll"
    /\ fahrenheit = 0 /\ target = InitTarget * Unit
    /\ current = 0 /\ hasCurrent = FALSE
    /\ currentInitialized = FALSE /\ tempArrayInitialized = FALSE
    /\ tempArray = <<>>
    /\ spin = 0 /\ fChecked = FALSE
    /\ gpc = "idle" /\ uncaught = "none"
    /\ seen = <<>> /\ atStart = <<>> /\ seeded = FALSE
    /\ nLines = 0 /\ nEvents = MaxEvents

NextLive ==
    \/ WPoll \/ LiveRead \/ WGet
    \/ Tick \/ DrainStep \/ DrainEnd
    \/ \E d \in LiveInputs : LiveSetpoint(d)

SpecLive ==
    /\ InitLive /\ [][NextLive]_vars
    /\ WF_vars(WPoll) /\ WF_vars(LiveRead) /\ WF_vars(WGet)
    /\ WF_vars(Tick) /\ WF_inQueue(DrainPop) /\ WF_vars(DrainEnd)

TypeOK ==
    /\ running \in {0, 1}
    /\ ports \in PortLists
    /\ ser.st \in {"none", "open", "closed", "broken"}
    /\ wpc \in {"scan", "open", "poll", "read", "get", "exit", "dead"}
    /\ gpc \in {"idle", "drain", "quit"}
    /\ spin \in 0..SpinMax
    /\ uncaught \in {"none", "ValueError", "AttributeError"}

\* ==================================================================== claims
Reverse(q) == [i \in 1..Len(q) |-> q[Len(q) + 1 - i]]
Last(q) == q[Len(q)]
AllButLast(q) == [i \in 1..(Len(q) - 1) |-> q[i]]

\* A line the codec of the specification rejects: a token count other than
\* 1, 2 or 3, or a field that is not a number.
Malformed(line) ==
    LET msg == Split(line)
    IN \/ Len(msg) \notin {1, 2, 3}
       \/ \E i \in 1..Len(msg) : ~IsNumeric(msg[i])

\* The session state of the specification: display unit, temperatures and
\* the recorded history.
session == <<fahrenheit, target, current, hasCurrent, tempArray>>

\* C1: lines pushed L1..Ln before a drain are processed by that drain in the
\* order Ln..L1, and the drain leaves the inbound queue empty.  Stated on
\* the step that ends a drain (the loop test finding the queue empty, or the
\* iteration an exception leaves), for a drain no push interleaves with.
C1_DrainNewestFirst ==
    [][ (gpc = "drain" /\ gpc' # "drain")
        => /\ (IF inQueue = <<>> THEN seen ELSE Append(seen, Last(inQueue)))
              = Reverse(atStart)
           /\ inQueue' = <<>> ]_vars

\* The same for a queue of lines that all decode (and once current exists):
\* support for C1, the order itself is newest first.
DrainNewestFirstDecodable ==
    [][ (gpc = "drain" /\ gpc' # "drain" /\ uncaught' = "none")
        => (seen = Reverse(atStart) /\ inQueue' = <<>>) ]_vars

C3_Step(X) ==
    IF fahrenheit = 0
    THEN /\ (9 * X > target) => (target' = target + 9)
         /\ (9 * X < target) => (target' = target - 9)
         /\ (9 * X = target) => (target' = target)
    ELSE /\ (45 * X > 9 * target + 1440) => (target' = target + 5)
         /\ (45 * X < 9 * target + 1440) => (target' = target - 5)
         /\ (45 * X = 9 * target + 1440) => (target' = target)
C3_RatchetStep ==
    [][ \A d \in SpinInputs : UserSetpoint(d) => C3_Step(d) ]_vars

\* In Fahrenheit display, at 86 F = 30 C, the user has stepped the spin box
\* to 87 and the target is 30 + 5/9.
C3_Witness ==
    /\ fahrenheit # 0 /\ spin = 87
    /\ target = InitTarget * Unit + 5

\* C4: a Reading with a device target changes targetC only if it is the
\* first such Reading since the transition into Connected; a later one
\* leaves targetC unchanged.
C4_OnlyFirstReadingSeeds ==
    [][ (gpc = "drain" /\ inQueue # <<>> /\ inQueue' # inQueue /\ seeded
         /\ SeedsTarget(Last(inQueue)))
        => target' = target ]_vars

\* C5: the worker is in its polling loop only with an open, usable handle,
\* and the handle is not left open while the worker scans.
C5_HandleOpenIffConnected ==
    /\ wpc \in {"read", "get"} => ser.st = "open"
    /\ (wpc = "scan" /\ ports = <<>> /\ running = 1)
          => ser.st \notin {"open", "broken"}

\* C6: while running is true no read or write fault ends the worker.  (The
\* worker's death for want of a handle object is left to C5.)
C6_NoFaultEndsWorker ==
    (running = 1 /\ ser.st # "none") => wpc # "dead"

\* C7: when both reads fault the worker clears the port list, reports the
\* fault, and is next in the scan loop; when only the first read faults the
\* port list is unchanged and the worker stays in the polling loop.
C7_DoubleFaultRescans ==
    [][ /\ (wpc = "read" /\ ser.st # "none" /\ ports' # ports)
           => (ports' = <<>> /\ status' = <<"Error on", ports[1]>>)
        /\ (wpc = "read" /\ wpc' # wpc /\ nEvents' # nEvents /\ ports' = ports)
           => wpc' \in {"get", "poll"}
        /\ (wpc \in {"get", "poll"} /\ ports = <<>> /\ running = 1)
           => wpc' \in {wpc, "poll", "scan"} ]_vars

\* C8: draining a malformed line changes no session state and raises
\* nothing out of the tick, and the drain goes on with the remaining lines.
C8_MalformedLineDiscarded ==
    [][ (gpc = "drain" /\ inQueue # <<>> /\ inQueue' # inQueue
         /\ Malformed(Last(inQueue)))
        => /\ session' = session
           /\ uncaught' = "none"
           /\ gpc' = "drain" ]_vars

\* C9: one setpoint intent pushes exactly one entry onto the outbound
\* queue, the value of targetC after the step, also when targetC is
\* unchanged.
C9_OneEntryPerIntent ==
    [][ \A d \in SpinInputs : UserSetpoint(d)
          => /\ Len(outQueue') = Len(outQueue) + 1
             /\ AllButLast(outQueue') = outQueue
             /\ Last(outQueue') = [cmd |-> "T", val |-> target'] ]_vars

\* Before any line was read the user has typed 30, the target's value: the
\* target is unchanged and it has been pushed.
C9_Witness ==
    /\ nLines = 0 /\ spin = InitTarget /\ target = InitTarget * Unit
    /\ outQueue # <<>> /\ Last(outQueue) = [cmd |-> "T", val |-> target]

\* C10: one unit-toggle intent sets the display unit, floors targetC, and
\* adds exactly one outbound entry, the unit token; no setpoint command is
\* enqueued and targetC is not changed further.  (Taken once a reading has
\* been received, so that the slot runs to its end.)
C10_ToggleQueuesUnitOnly ==
    [][ \A scale \in BOOLEAN : (UserToggle(scale) /\ hasCurrent)
          => /\ fahrenheit' = (IF scale THEN 1 ELSE 0)
             /\ target' = 9 * (target \div 9)
             /\ outQueue' = Append(outQueue,
                              [cmd |-> IF scale THEN "F" ELSE "C", val |-> 0]) ]_vars

\* C11: only the worker thread opens, closes or replaces the serial handle:
\* every step that changes the handle is a step of the worker, so the
\* handle never changes under a worker that is inside a polling cycle.
C11_OnlyWorkerTouchesHandle ==
    [][ (ser' # ser) => Worker ]_vars

\* C12: once running is false the worker ends, and when it has ended the
\* serial handle is closed (a handle object that was never created counts
\* as closed).
C12_WorkerEndsWithHandleClosed ==
    (running = 0 /\ wpc \in {"exit", "dead"}) => ser.st \in {"closed", "none"}

\* Support for C12: under the scheduling of FairSpec the worker does end
\* once running is false, by leaving its loop or by an uncaught exception.
WorkerEndsAfterShutdown ==
    (running = 0) ~> (wpc \in {"exit", "dead"})

\* C13: once running is false the periodic tick eventually quits the
\* application, whether or not a reading was ever received.
C13_TickQuitsAfterShutdown ==
    (running = 0) ~> (gpc = "quit")

\* Support for C13: a tick quits only when the history has been started
\* (the test of running sits inside the test of tempArrayInitialized), and
\* once it has been started a tick does quit after shutdown.
QuitOnlyWithHistory ==
    [][ (gpc' = "quit") => tempArrayInitialized ]_vars
TickQuitsOnceHistoryStarted ==
    (running = 0 /\ tempArrayInitialized) ~> (gpc = "quit")

\* C14: after a three-token line has seeded the target, targetC is the
\* device target in Celsius: token2 when the unit flag (token1) is 0, and
\* (token2 - 32) * 5/9 when it is not.
C14_SeedStoredInCelsius ==
    [][ (gpc = "drain" /\ inQueue # <<>> /\ inQueue' # inQueue
         /\ SeedsTarget(Last(inQueue)))
        => LET msg == Split(Last(inQueue))
           IN target' = IF ToInt(msg[2]) = 0 THEN ToFloat(msg[3])
                        ELSE toCelsius(ToInt(msg[3])) ]_vars

\* Support for C14: with the unit flag 0 the seed is stored as sent.
CelsiusSeedStoredAsSent ==
    [][ (gpc = "drain" /\ inQueue # <<>> /\ inQueue' # inQueue
         /\ SeedsTarget(Last(inQueue)) /\ ToInt(Split(Last(inQueue))[2]) = 0)
        => target' = ToFloat(Split(Last(inQueue))[3]) ]_vars

\* C15: draining a line of 1, 2 or 3 numeric tokens, whatever the white
\* space around them, sets currentC to token0; a 1-token line leaves the
\* unit flag and targetC unchanged; a 2-token line sets the unit flag to
\* token1 and leaves targetC unchanged.
C15_DecodeByTokenCount ==
    [][ (gpc = "drain" /\ inQueue # <<>> /\ inQueue' # inQueue
         /\ ~Malformed(Last(inQueue)))
        => LET msg == Split(Last(inQueue))
           IN /\ current' = ToFloat(msg[1])
              /\ Len(msg) = 1 => (fahrenheit' = fahrenheit /\ target' = target)
              /\ Len(msg) = 2 => (fahrenheit' = ToInt(msg[2]) /\ target' = target)
      ]_vars

\* Support for C15: all of it but the target of a 2-token line.
DecodeCurrentAndUnit ==
    [][ (gpc = "drain" /\ inQueue # <<>> /\ inQueue' # inQueue
         /\ ~Malformed(Last(inQueue)))
        => LET msg == Split(Last(inQueue))
           IN /\ current' = ToFloat(msg[1])
              /\ Len(msg) = 1 => (fahrenheit' = fahrenheit /\ target' = target)
              /\ Len(msg) = 2 => fahrenheit' = ToInt(msg[2])
      ]_vars

\* C16: a port change that fails to open the new port leaves no handle
\* open, and the worker, still running, leaves the polling loop for the
\* scan loop: from the closed handle on it is never ended.
C16_FailedPortChangeRescans ==
    [][ /\ (\E i \in 1..2 : changePort(i)) => ser'.st \in {"closed", "none"}
        /\ (ser.st = "closed" /\ running = 1 /\ wpc \in {"poll", "read", "get"})
              => wpc' \in {"poll", "read", "get", "scan"} ]_vars

\* Support for C16: with nothing queued for the device the worker does go
\* from the closed handle to the scan loop.
ClosedHandleRescans ==
    (ser.st = "closed" /\ running = 1 /\ wpc = "read" /\ outQueue = <<>>)
        ~> (wpc \in {"scan", "open"} \/ outQueue # <<>> \/ running = 0)

\* C17: while the worker stays connected and keeps cycling (it comes to its
\* write-out again and again), every command pushed onto the outbound
\* queue is eventually written.  The queue is a stack, so its oldest entry
\* is written exactly when the queue becomes empty.
C17_NoStarvation ==
    ([]<>(wpc = "get")) => ((outQueue # <<>>) ~> (outQueue = <<>>))

\* Support for C17: what starves a command is only newer commands.  When
\* from some point on nothing more is pushed and the worker keeps cycling,
\* the outbound queue is written out to the last entry.
WrittenOutWhenPushesStop ==
    (([]<>(wpc = "get")) /\ (<>[][Len(outQueue') <= Len(outQueue)]_vars))
        => ((outQueue # <<>>) ~> (outQueue = <<>>))

\* C18: every line a read call returns is pushed onto the inbound queue,
\* the line returned by the retry after a read fault included.  A read step
\* on an open handle that does not end in the double-fault handling (the
\* port list is kept) had one of its two reads return a line.
C18_EveryLineReadIsPushed ==
    [][ (wpc = "read" /\ wpc' # wpc /\ ser.st = "open" /\ ports' = ports)
        => (Len(inQueue') = Len(inQueue) + 1 /\ AllButLast(inQueue') = inQueue) ]_vars

\* Support for C18: the line returned by the first read is pushed.
FirstReadIsPushed ==
    [][ (wpc = "read" /\ wpc' # wpc /\ nLines' # nLines)
        => (Len(inQueue') = Len(inQueue) + 1 /\ Last(inQueue') \in Lines
            /\ AllButLast(inQueue') = inQueue) ]_vars

\* C19: entries are pushed onto the outbound queue only by user intents (a
\* setpoint change or a unit toggle); draining a reading pushes nothing.
C19_OnlyIntentsPush ==
    [][ /\ (Len(outQueue') > Len(outQueue))
           => \/ \E d \in SpinInputs : UserSetpoint(d)
              \/ \E scale \in BOOLEAN : UserToggle(scale)
        /\ (gpc = "drain" /\ inQueue' # inQueue) => outQueue' = outQueue ]_vars

\* Support for C19: a reading that agrees with the session (no unit flag,
\* or the unit and target already shown) pushes nothing.
BareReadingPushesNothing ==
    [][ (gpc = "drain" /\ inQueue # <<>> /\ inQueue' # inQueue
         /\ Len(Split(Last(inQueue))) = 1)
        => outQueue' = outQueue ]_vars

\* C20: no queue operation blocks its caller.  The queues are unbounded, so
\* a put never waits; the drain takes lines with get(0), which never waits;
\* the worker's get() is the one blocking call, and it is reached only with
\* an entry in the outbound queue, whatever the GUI thread does between the
\* test of qsize() and the get.
C20_NoQueueOpBlocks ==
    (wpc = "get") => (Len(outQueue) > 0)

\* The worker is at its get() with two entries queued while the GUI thread
\* is in the middle of a drain.
C20_Witness ==
    wpc = "get" /\ Len(outQueue) >= 2 /\ gpc = "drain"

EveryLinePoppedWhileDrainsComplete ==
    ([](uncaught \notin {"ValueError", "AttributeError"}))
        => ((inQueue # <<>>) ~> (inQueue = <<>>))

CarriedBy(line) ==
    LET msg == Split(line)
    IN /\ current = ToFloat(msg[1])
       /\ Len(msg) >= 2 => fahrenheit = ToInt(msg[2])
       /\ (Len(msg) = 3 /\ ToInt(msg[2]) = 0) => target = ToFloat(msg[3])

\* C22: when a drain that processed valid lines completes, the reading (and
\* the unit flag and the target, when carried) of the session are those of
\* the line pushed most recently before the drain, also when several lines
\* had accumulated.  Stated on the step that ends a drain all of whose lines
\* were valid and no push interleaved with.
C22_DrainLeavesNewestLine ==
    [][ ( /\ gpc = "drain" /\ inQueue = <<>> /\ gpc' # "drain"
          /\ seen # <<>> /\ Len(seen) = Len(atStart)
          /\ \A i \in 1..Len(atStart) : ~Malformed(atStart[i]) )
        => CarriedBy(Last(atStart)) ]_vars

\* The same for a drain of one valid line: support for C22, the session
\* takes the reading and the unit flag of the line that was processed last.
DrainOfOneLineLeavesIt ==
    [][ ( /\ gpc = "drain" /\ inQueue = <<>> /\ gpc' # "drain"
          /\ Len(seen) = 1 /\ Len(atStart) = 1
          /\ ~Malformed(atStart[1]) )
        => CarriedBy(atStart[1]) ]_vars

\* What the loop does leave: each iteration overwrites the reading, and the
\* line popped last is the one pushed first, so the session ends with the
\* reading of the OLDEST line of the batch.
DrainLeavesOldestReading ==
    [][ ( /\ gpc = "drain" /\ inQueue = <<>> /\ gpc' # "drain"
          /\ seen # <<>> /\ Len(seen) = Len(atStart)
          /\ \A i \in 1..Len(atStart) : ~Malformed(atStart[i]) )
        => current = ToFloat(Split(atStart[1])[1]) ]_vars

====
